---- MODULE Spec2Model ----
(***************************************************************************)
(* Model of the connection-pool / retry subsystem of mooda:                *)
(*   src/src/utils/db_connection/db_connection.py                          *)
(* The process-wide pool (DBConnection._connection_pool), one handle       *)
(* (DBConnection instance) per request thread, and the retry_operation     *)
(* wrapper around execute_query / fetch_one / fetch_all.                    *)
(*                                                                         *)
(* The MySQL driver is the environment.  A driver call either returns or   *)
(* raises; what it raises is drawn from ErrKinds.  A pool object is named  *)
(* by the order of its construction (1, 2, ...); 0 stands for None.        *)
(***************************************************************************)
EXTENDS Integers, Sequences, FiniteSets, TLC

\* ---------------------------------------------------------------- bounds
NumThreads == 2
MaxPools == 2
MaxCloses == 2
MaxCommits == 1

\* ------------------------------------------------------ program constants
max_retries == 3
delay == 2
backoff == 2

\* 'pool_size': 5 in the configuration of every MySQLConnectionPool
pool_size == 5

Threads == 1 .. NumThreads

\* The thread that imports the application's modules, before serve() starts
\* the request threads.
Main == 0

VARIABLES
    pool,        \* DBConnection._connection_pool: 0 (None) or a pool id
    poolsBuilt,  \* number of MySQLConnectionPool objects constructed so far
    committed,   \* statements committed by execute_query (the table's AUTO_INCREMENT)
    connection,  \* connection[t]: self.connection of the handle of thread t
    cursor,      \* cursor[t]: self._cursor is not None
    pc,          \* pc[t]: where thread t is
    cont,        \* cont[t]: where initialize_pool() returns to
    built,       \* built[t]: how the last pool construction of thread t ended
    op,          \* op[t]: the wrapped method being run
    retries,     \* retries[t]: the wrapper's local retries
    wait_time,   \* wait_time[t]: the wrapper's local wait_time
    calls,       \* calls[t]: invocations of func by the current wrapper call
    sleeps,      \* sleeps[t]: arguments of time.sleep, in order
    errs,        \* errs[t]: the exception each failed invocation raised
    poolAt,      \* poolAt[t]: _connection_pool at each invocation of func
    old,         \* old[t]: the pool that the last _reconnect_pool of thread t discarded
    outcome,     \* outcome[t]: what the wrapper call gave its caller
    ran,         \* ran[t]: calls of cursor.execute by the current wrapper call
    scope,       \* scope[t]: the with statement that holds the handle of thread t
    users,       \* users[t]: the threads that have called into the handle
    probe,       \* probe[t]: how the last is_connected() of the handle ended
    applied,     \* applied[t]: times the current call's statement took effect
    recon,       \* recon[t]: how the last reconnect() of the handle ended
    upshot,      \* upshot[t]: what the last consumer method gave the route layer
    legacy       \* legacy[t]: how the last legacy execute/fetchone/fetchall ended

vars == << pool, poolsBuilt, committed, connection, cursor, pc, cont, built, old,
           op, retries, wait_time, calls, sleeps, errs, poolAt, outcome, ran,
           scope, users, probe, applied, recon, upshot, legacy >>

gvars == << pool, poolsBuilt, committed >>
hvars == << connection, cursor >>
ivars == << cont, built, old >>
wvars == << op, retries, wait_time, calls, sleeps, errs, poolAt, outcome, ran, applied >>
rvars == << recon, upshot, legacy >>
cvars == << scope, users, probe, rvars >>

\* ------------------------------------------------------------ exceptions
\* What the driver raises.  cls "Error" is mysql.connector.Error or a subclass
\* of it (InterfaceError, OperationalError, ProgrammingError);
\* "TypeError" is an exception outside that hierarchy.
ErrKinds == { "LostConnection", "ServerGone", "Syntax", "TypeError" }

ErrClass(k) ==
    CASE k = "LostConnection" -> "InterfaceError"
      [] k = "ServerGone"     -> "OperationalError"
      [] k = "NotAvailable"   -> "OperationalError"
      [] k = "NoConnection"   -> "Error"
      [] k = "NoDatabase"     -> "Error"
      [] k = "Syntax"         -> "ProgrammingError"
      [] k = "NoneAttr"       -> "AttributeError"
      [] OTHER                -> "TypeError"

\* str(e), as its words.
ErrMsg(k) ==
    CASE k = "LostConnection" -> << "Lost", "connection", "to", "MySQL", "server" >>
      [] k = "ServerGone"     -> << "MySQL", "server", "has", "gone", "away" >>
      [] k = "NotAvailable"   -> << "MySQL", "Connection", "not", "available" >>
      [] k = "NoConnection"   -> << "Failed", "to", "establish", "database", "connection" >>
      [] k = "NoDatabase"     -> << "No", "database", "connection", "available" >>
      [] k = "Syntax"         -> << "You", "have", "an", "error", "in", "your", "SQL", "syntax" >>
      [] k = "NoneAttr"       -> << "NoneType", "object", "has", "no", "attribute",
                                    "is_connected" >>
      [] OTHER                -> << "not", "all", "arguments", "converted" >>

\* except (Error, mysql.connector.errors.InterfaceError): every class of the
\* mysql.connector.Error hierarchy is caught.
IsErrorAnyException(k) == TRUE

IsError(k) == ErrClass(k) \in { "Error", "InterfaceError", "OperationalError",
                                "ProgrammingError" }

\* str.lower() on the words the messages use.
Lower(w) ==
    CASE w = "Lost"       -> "lost"
      [] w = "MySQL"      -> "mysql"
      [] w = "Connection" -> "connection"
      [] w = "Failed"     -> "failed"
      [] w = "You"        -> "you"
      [] w = "SQL"        -> "sql"
      [] w = "Interface"  -> "interface"
      [] w = "NoneType"   -> "nonetype"
      [] w = "No"         -> "no"
      [] OTHER            -> w

\* "connection" in str(e).lower() or "interface" in str(e).lower()
MentionsLost(k) ==
    \E i \in 1 .. Len(ErrMsg(k)) : Lower(ErrMsg(k)[i]) \in { "connection", "interface" }

\* A transport fault, by the class of the error object or by its message.
ConnectivityClass(k) ==
    ErrClass(k) \in { "InterfaceError", "OperationalError" } \/ MentionsLost(k)

Exc(k, n) == [ kind |-> k, at |-> n ]

\* ------------------------------------------------------------ connections
\* dirty: the connection's open transaction holds a statement that ran and
\* was neither committed nor rolled back.
NoConn == [ pool |-> 0, st |-> "none", closes |-> 0, dirty |-> FALSE ]
Conn(p, s) == [ pool |-> p, st |-> s, closes |-> 0, dirty |-> FALSE ]

\* self.connection.is_connected() returns: True on a connected connection,
\* False on one whose socket is gone.
IsConnected(c) == c.st = "live"

\* self.connection.is_connected() on a connection object that close() gave
\* back to its pool: the pooled wrapper forwards the call to the inner
\* connection it no longer has.  Depending on the driver, the call answers
\* False (ic = "false") or raises AttributeError (ic = "raise").
IsConnectedRaises(c, ic) == c.st = "returned" /\ ic = "raise"

\* A connection object that is out of its pool's queue.
Held(c) == c.st \in { "live", "dead" }

Bump(n) == IF n < MaxCloses THEN n + 1 ELSE n

\* ----------------------------------------------------------- return values
\* Python values by type: None, an int, one row as a dict (the n-th row of
\* the table), a list of n rows.
PyNone == [ type |-> "NoneType", n |-> 0 ]
PyInt(n) == [ type |-> "int", n |-> n ]
PyDict(n) == [ type |-> "dict", n |-> n ]
PyList(n) == [ type |-> "list", n |-> n ]
PyBool(b) == [ type |-> "bool", n |-> IF b THEN 1 ELSE 0 ]

\* The result mapping of a User mutation: its one flag, b.
\* The mapping Login.login returns: {"login_succeeded": ok} with the entry
\* "reason" (reason # "none") on the failure paths; keys are its keys.
PyLogin(ok, reason) ==
    [ type |-> "login", login_succeeded |-> ok, reason |-> reason,
      keys |-> IF reason = "none" THEN { "login_succeeded" }
               ELSE { "login_succeeded", "reason" } ]

\* The mapping Login.validate_password returns.
PyValidated(found, matches) ==
    [ type |-> "validated", hashed_password_found |-> found, matches |-> matches ]

PyFlags(b) == [ type |-> "flags", n |-> IF b THEN 1 ELSE 0 ]

NoOutcome == [ kind |-> "none", at |-> 0, val |-> PyNone, exc |-> "none" ]
Returned(n, v) == [ kind |-> "returned", at |-> n, val |-> v, exc |-> "none" ]
Raised(n, k) == [ kind |-> "raised", at |-> n, val |-> PyNone, exc |-> k ]

\* No is_connected() yet.  After one: st is the state of self.connection when
\* it was called, select how its SELECT 1 went ("none": not sent), out the
\* value returned or the exception raised.
NoProbe == [ st |-> "none", select |-> "none", out |-> NoOutcome ]

\* No reconnect() yet.  After one: got tells how its _get_connection() ended
\* ("none": not called, "True", "False", or "Error": False after the except
\* clause ran), out the value reconnect() returned or the exception it raised.
NoRecon == [ got |-> "none", out |-> NoOutcome ]

\* No consumer method has run yet.  Of one: by is the method, at where it
\* stands ("none" once it has returned), call what the wrapped method it
\* called last gave it, trail what it has learnt from its other calls, out
\* what it gave the route layer and flash the message the route then showed.
NoUpshot == [ by |-> "none", at |-> "none", call |-> NoOutcome, trail |-> << >>,
              out |-> NoOutcome, flash |-> "none" ]

\* No legacy method called yet.  After one: by is the method, out the value
\* returned or the exception raised.
NoLegacy == [ by |-> "none", out |-> NoOutcome ]

\* A handle outside any with statement.  Inside one: what __enter__ bound to
\* the target, the close() calls that leaving made, the exception the body
\* raised and the exception that left the statement.
NoScope == [ kind |-> "none", bound |-> 0, exits |-> 0, body |-> "none", out |-> "none" ]

\* ------------------------------------------------------- initialize_pool
NeedsInitAlways(p) == TRUE

\* if cls._connection_pool is None:
NeedsInit(p) == p = 0

OnBuildFailureKeepsPartial(p) == 1

\* except Error / except Exception: cls._connection_pool = None
OnBuildFailure(p) == 0

\* ------------------------------------------------------- _get_connection
\* What pool.get_connection() can do: hand out a connected connection
\* ("live"), hand out one that is not connected ("stale"), or raise Error
\* ("error": the pool is exhausted, the server cannot be reached).
AcqOutcomes(E) == IF pool = 0 THEN { "nopool" } ELSE E.acq

GetConnectionKeepsOld(c, cur, acq) ==
    IF pool = 0
    THEN [ connection |-> IF c = NoConn THEN c ELSE [ c EXCEPT !.st = "live" ],
           cursor |-> cur, ok |-> FALSE, err |-> FALSE ]
    ELSE CASE acq = "live"  ->
                [ connection |-> Conn(pool, "live"), cursor |-> TRUE, ok |-> TRUE,
                  err |-> FALSE ]
           [] acq = "stale" ->
                [ connection |-> Conn(pool, "dead"), cursor |-> cur, ok |-> FALSE,
                  err |-> FALSE ]
           [] OTHER ->
                [ connection |-> NoConn, cursor |-> FALSE, ok |-> FALSE, err |-> TRUE ]

GetConnectionLazyCursor(c, cur, acq) ==
    IF pool = 0
    THEN [ connection |-> c, cursor |-> cur, ok |-> FALSE, err |-> FALSE ]
    ELSE CASE acq = "live"  ->
                [ connection |-> Conn(pool, "live"), cursor |-> cur, ok |-> TRUE,
                  err |-> FALSE ]
           [] acq = "stale" ->
                [ connection |-> Conn(pool, "dead"), cursor |-> cur, ok |-> FALSE,
                  err |-> FALSE ]
           [] OTHER ->
                [ connection |-> NoConn, cursor |-> FALSE, ok |-> FALSE, err |-> TRUE ]

\* _get_connection() on a handle with fields (c, cur): the fields afterwards,
\* the return value, and whether the except clause ran.
GetConnection(c, cur, acq) ==
    IF pool = 0
    THEN [ connection |-> c, cursor |-> cur, ok |-> FALSE, err |-> FALSE ]
    ELSE CASE acq = "live"  ->
                [ connection |-> Conn(pool, "live"), cursor |-> TRUE, ok |-> TRUE,
                  err |-> FALSE ]
           [] acq = "stale" ->
                [ connection |-> Conn(pool, "dead"), cursor |-> cur, ok |-> FALSE,
                  err |-> FALSE ]
           [] OTHER ->
                [ connection |-> NoConn, cursor |-> FALSE, ok |-> FALSE, err |-> TRUE ]

\* ------------------------------------------------------- retry_operation
WaitTimeFromAttempt(r) == delay * (backoff ^ r)

\* wait_time = delay * (backoff ** (retries - 1))
WaitTime(r) == delay * (backoff ^ (r - 1))

ExhaustedLate(r) == r = max_retries + 1

ExhaustedNever(r) == FALSE

ExhaustedEarly(r) == r = max_retries - 1

\* if retries == max_retries: raise e
Exhausted(r) == r = max_retries

\* execute_quick_query is a static method: called with a statement that
\* writes, or with a SELECT.
QuickOps == { "execute_quick_query", "execute_quick_query_select" }

\* args and hasattr(args[0], '_reconnect_pool'): the first argument of a
\* method of a handle is the handle, that of execute_quick_query is the query
\* string.
HasHandle(o) == o \notin QuickOps

ReconnectsOnAnyError(o, k) == TRUE

\* if "connection" in str(e).lower() or "interface" in str(e).lower():
\*     if args and hasattr(args[0], '_reconnect_pool'):
Reconnects(o, k) == MentionsLost(k) /\ HasHandle(o)

Last(s) == s[Len(s)]

\* ----------------------------------------------- the wrapped methods' body
Ops == { "execute_query", "fetch_one", "fetch_all" }
StmtOutcomes == { "ok" } \cup ErrKinds

\* self.connection.rollback() raises when the connection is not usable.
RollbackRaises(c, rb) == c.st # "live" \/ rb = "fail"

\* except Error as e: (execute_query only) if self.connection: rollback(); raise e
\* The exception that leaves the method when the try block raised k on a handle
\* whose connection is c.
Reraised(o, c, k, rb) ==
    IF IsError(k) /\ o = "execute_query" /\ c # NoConn /\ RollbackRaises(c, rb)
    THEN "NotAvailable"
    ELSE k

\* The same clause: a rollback() that returns ends the connection's open
\* transaction; without one, or when it raises, the transaction stays as the
\* try block left it.
AfterExcept(o, c, k, rb) ==
    IF IsError(k) /\ o = "execute_query" /\ c # NoConn /\ ~RollbackRaises(c, rb)
    THEN [ c EXCEPT !.dirty = FALSE ]
    ELSE c

NeedsConnectionOnlyAbsent(c) == c = NoConn

\* if not self.connection or not self.connection.is_connected():
NeedsConnection(c) == c = NoConn \/ ~IsConnected(c)

\* The rows a SELECT over the table finds when sent on connection c: the
\* committed ones and the one its own open transaction holds.
Visible(c) == committed + (IF c.dirty THEN 1 ELSE 0)

FetchOneAlwaysNone(rows) == PyNone

\* cursor.fetchone() on a dictionary cursor: None without a row, else the
\* first row as a dict.
FetchOne(rows) == IF rows = 0 THEN PyNone ELSE PyDict(1)

FetchAllOrNone(rows) == IF rows = 0 THEN PyNone ELSE PyList(rows)

\* cursor.fetchall(): the list of the rows.
FetchAll(rows) == PyList(rows)

\* cursor.lastrowid after a statement that was the n-th to be committed: the
\* id of the row it inserted, or, when it generated no id, what the driver
\* keeps there, 0 or None.
LastRowId(rid, n) ==
    CASE rid = "id"   -> PyInt(n)
      [] rid = "zero" -> PyInt(0)
      [] OTHER        -> PyNone

\* The rows the SELECT of a call finds on connection c: those of the table, or
\* the one row of a SELECT of constants (SELECT 1 as test_value).
Found(rw, c) == IF rw = "one" THEN 1 ELSE Visible(c)

\* One run of execute_quick_query by thread t: a connection of its own, the
\* statement, fetchall() for a SELECT and commit() with lastrowid otherwise;
\* both except clauses re-raise.  so is the first driver call that raises, in
\* mysql.connector.connect (stage = "connect") or later.
QuickFunc(t, o, so, stage, rid, rw) ==
    LET base == [ connection |-> connection[t], cursor |-> cursor[t],
                  committed |-> committed, raised |-> "none", val |-> PyNone,
                  ran |-> FALSE ]
    IN  IF so # "ok"
        THEN [ base EXCEPT !.raised = so, !.ran = (stage # "connect") ]
        ELSE IF o = "execute_quick_query_select"
        THEN [ base EXCEPT !.val = FetchAll(Found(rw, NoConn)), !.ran = TRUE ]
        ELSE [ base EXCEPT !.committed = committed + 1,
                           !.val = LastRowId(rid, committed + 1), !.ran = TRUE ]

\* One run of execute_query / fetch_one / fetch_all on the handle of thread t,
\* with the driver's answers ic (is_connected on a returned connection), acq
\* (get_connection), so (the first driver call of the try block that raises:
\* in cursor.execute, or, stage = "commit", in connection.commit after the
\* statement ran, or, stage = "after", once commit has taken effect: in
\* commit itself, at cursor.lastrowid or in cursor.close), rb (rollback), rid
\* (cursor.lastrowid) and rw (the rows of a SELECT).  raised = "none" when the
\* method returns val; ran tells whether cursor.execute was called.
Func(t, o, ic, acq, so, stage, rb, rid, rw) ==
    LET c    == connection[t]
        g    == IF NeedsConnection(c) THEN GetConnection(c, cursor[t], acq)
                ELSE [ connection |-> c, cursor |-> cursor[t], ok |-> TRUE, err |-> FALSE ]
        base == [ connection |-> g.connection, cursor |-> g.cursor,
                  committed |-> committed, raised |-> "none", val |-> PyNone,
                  ran |-> FALSE ]
        wrote == o = "execute_query" /\ stage = "commit" /\ IsError(so)
        tried == [ g.connection EXCEPT !.dirty = @ \/ wrote ]
        late  == o = "execute_query" /\ stage = "after" /\ IsError(so)
        clean == [ g.connection EXCEPT !.dirty = FALSE ]
    IN  IF o \in QuickOps
        THEN QuickFunc(t, o, so, stage, rid, rw)
        ELSE IF c # NoConn /\ IsConnectedRaises(c, ic)
        THEN [ connection |-> c, cursor |-> cursor[t], committed |-> committed,
               raised |-> "NoneAttr", val |-> PyNone, ran |-> FALSE ]
        ELSE IF ~g.ok
        THEN [ base EXCEPT !.raised = Reraised(o, g.connection, "NoConnection", rb),
                           !.connection = AfterExcept(o, g.connection, "NoConnection", rb) ]
        ELSE IF so = "ok"
        THEN CASE o = "execute_query" ->
                    [ base EXCEPT !.committed = Visible(g.connection) + 1,
                                  !.val = LastRowId(rid, Visible(g.connection) + 1),
                                  !.connection = clean,
                                  !.ran = TRUE ]
               [] o = "fetch_one" ->
                    [ base EXCEPT !.val = FetchOne(Found(rw, g.connection)), !.ran = TRUE ]
               [] OTHER ->
                    [ base EXCEPT !.val = FetchAll(Found(rw, g.connection)), !.ran = TRUE ]
        ELSE IF late
        THEN [ base EXCEPT !.committed = Visible(g.connection) + 1,
                           !.raised = Reraised(o, clean, so, rb),
                           !.connection = AfterExcept(o, clean, so, rb),
                           !.ran = TRUE ]
        ELSE [ base EXCEPT !.raised = Reraised(o, tried, so, rb),
                           !.connection = AfterExcept(o, tried, so, rb),
                           !.ran = TRUE ]

\* ------------------------------------------------------------- actions
\* The driver's answers a run draws from: the wrapped methods called, what a
\* statement does, what get_connection does, what rollback does, where in the
\* try block an error is raised, what is_connected does on a returned
\* connection, what lastrowid holds, which rows a SELECT finds; commits is
\* the number of committed statements up to which the run is followed.
FullEnv == [ ops |-> Ops, so |-> StmtOutcomes, acq |-> { "live", "stale", "error" },
             rb |-> { "ok", "fail" }, stage |-> { "execute" },
             ic |-> { "false", "raise" }, rowid |-> { "id" }, rows |-> { "table" },
             commits |-> MaxCommits ]

\* DBConnection(), run by thread w: __init__ up to the call of
\* initialize_pool().
CtorBy(w, t) ==
    /\ pc[t] = "new"
    /\ pc' = [ pc EXCEPT ![t] = IF pool = 0 THEN "ip_check" ELSE "ctor_get" ]
    /\ cont' = [ cont EXCEPT ![t] = "ctor_get" ]
    /\ users' = [ users EXCEPT ![t] = { w } ]
    /\ UNCHANGED << scope, probe, rvars, gvars, hvars, built, old, wvars >>

\* A request thread constructs the handle it works with.
Ctor(t) == CtorBy(t, t)

\* __init__: self.connection = None; self._cursor = None; self._get_connection()
CtorGet(t, E) ==
    /\ pc[t] = "ctor_get"
    /\ \E acq \in AcqOutcomes(E) :
          LET g == GetConnection(NoConn, FALSE, acq)
          IN  /\ connection' = [ connection EXCEPT ![t] = g.connection ]
              /\ cursor' = [ cursor EXCEPT ![t] = g.cursor ]
    /\ pc' = [ pc EXCEPT ![t] = "idle" ]
    /\ UNCHANGED << cvars, gvars, ivars, wvars >>

\* DBConnection.initialize_pool() called on its own.
CallInitializePool(t) ==
    /\ pc[t] = "idle"
    /\ pc' = [ pc EXCEPT ![t] = "ip_check" ]
    /\ cont' = [ cont EXCEPT ![t] = "idle" ]
    /\ UNCHANGED << cvars, gvars, hvars, built, old, wvars >>

\* initialize_pool: if cls._connection_pool is None
IpCheck(t) ==
    /\ pc[t] = "ip_check"
    /\ pc' = [ pc EXCEPT ![t] = IF NeedsInit(pool) THEN "ip_build" ELSE cont[t] ]
    /\ built' = [ built EXCEPT ![t] = IF NeedsInit(pool) THEN @ ELSE "skipped" ]
    /\ UNCHANGED << cvars, gvars, hvars, cont, old, wvars >>

\* initialize_pool: the try block; the constructor of MySQLConnectionPool
\* returns a new pool or raises.
IpBuild(t) ==
    /\ pc[t] = "ip_build"
    /\ \/ /\ poolsBuilt < MaxPools
          /\ poolsBuilt' = poolsBuilt + 1
          /\ pool' = poolsBuilt + 1
          /\ built' = [ built EXCEPT ![t] = "ok" ]
       \/ /\ pool' = OnBuildFailure(pool)
          /\ built' = [ built EXCEPT ![t] = "failed" ]
          /\ UNCHANGED poolsBuilt
    /\ pc' = [ pc EXCEPT ![t] = cont[t] ]
    /\ UNCHANGED << cvars, committed, hvars, cont, old, wvars >>

\* Thread w invokes a wrapped method of handle t: wrapper(), retries = 0.
CallBy(w, t, E) ==
    /\ pc[t] = "idle"
    /\ \E o \in E.ops : op' = [ op EXCEPT ![t] = o ]
    /\ pc' = [ pc EXCEPT ![t] = "attempt" ]
    /\ users' = [ users EXCEPT ![t] = @ \cup { w } ]
    /\ UNCHANGED << scope, probe, rvars, gvars, hvars, ivars, retries, wait_time, calls, sleeps,
                    errs, poolAt, outcome, ran, applied >>

\* A request thread invokes a wrapped method of its own handle.
Call(t, E) == CallBy(t, t, E)

\* The driver's answers that a run of the method on connection c can meet:
\* only a call that is made has an answer.
IcAnswers(E, c) == IF c.st = "returned" THEN E.ic ELSE { "false" }
AcqAnswers(E, c) == IF NeedsConnection(c) THEN AcqOutcomes(E) ELSE { "live" }
RbAnswers(E, o) == IF o = "execute_query" THEN E.rb ELSE { "ok" }
StageAnswers(E, o, so) ==
    IF o = "execute_query" /\ so # "ok" /\ IsError(so) THEN E.stage
    ELSE IF o \in QuickOps /\ so # "ok" THEN { "connect", "execute" }
    ELSE { "execute" }
RowidAnswers(E, o, so) ==
    IF o \in { "execute_query", "execute_quick_query" } /\ so = "ok" THEN E.rowid
    ELSE { "id" }
RowsAnswers(E, o, so) ==
    IF o \in { "fetch_one", "fetch_all", "execute_quick_query_select" } /\ so = "ok"
    THEN E.rows ELSE { "table" }

LoopRunsShort(r) == r < max_retries - 1

LoopRunsOnce(r) == r < 1

\* while retries < max_retries
LoopRuns(r) == r < max_retries

\* One turn of the wrapper's loop: return func(*args, **kwargs), and the except
\* clause up to time.sleep.  When the loop condition fails: return None.
Attempt(t, E) ==
    /\ pc[t] = "attempt"
    /\ IF ~LoopRuns(retries[t])
       THEN /\ outcome' = [ outcome EXCEPT ![t] = Returned(0, PyNone) ]
            /\ pc' = [ pc EXCEPT ![t] = "done" ]
            /\ UNCHANGED << committed, hvars, retries, wait_time, calls, errs, poolAt,
                            ran, applied >>
       ELSE \E ic \in IcAnswers(E, connection[t]), acq \in AcqAnswers(E, connection[t]),
               so \in E.so, rb \in RbAnswers(E, op[t]) :
            \E stage \in StageAnswers(E, op[t], so), rid \in RowidAnswers(E, op[t], so),
               rw \in RowsAnswers(E, op[t], so) :
              LET r == Func(t, op[t], ic, acq, so, stage, rb, rid, rw)
                  n == calls[t] + 1
                  k == r.raised
              IN  /\ r.committed <= E.commits
                  /\ connection' = [ connection EXCEPT ![t] = r.connection ]
                  /\ cursor' = [ cursor EXCEPT ![t] = r.cursor ]
                  /\ committed' = r.committed
                  /\ calls' = [ calls EXCEPT ![t] = n ]
                  /\ ran' = [ ran EXCEPT ![t] = IF r.ran THEN @ + 1 ELSE @ ]
                  /\ applied' = [ applied EXCEPT ![t] = @ + (r.committed - committed) ]
                  /\ poolAt' = [ poolAt EXCEPT ![t] = Append(@, pool) ]
                  /\ IF k = "none"
                     THEN /\ outcome' = [ outcome EXCEPT ![t] = Returned(n, r.val) ]
                          /\ pc' = [ pc EXCEPT ![t] = "done" ]
                          /\ UNCHANGED << retries, wait_time, errs >>
                     ELSE /\ errs' = [ errs EXCEPT ![t] = Append(@, Exc(k, n)) ]
                          /\ IF ~IsError(k)
                             THEN /\ outcome' = [ outcome EXCEPT ![t] = Raised(n, k) ]
                                  /\ pc' = [ pc EXCEPT ![t] = "done" ]
                                  /\ UNCHANGED << retries, wait_time >>
                             ELSE /\ retries' = [ retries EXCEPT ![t] = @ + 1 ]
                                  /\ IF Exhausted(retries[t] + 1)
                                     THEN /\ outcome' = [ outcome EXCEPT ![t] = Raised(n, k) ]
                                          /\ pc' = [ pc EXCEPT ![t] = "done" ]
                                          /\ UNCHANGED wait_time
                                     ELSE /\ wait_time' = [ wait_time EXCEPT ![t] =
                                                              WaitTime(retries[t] + 1) ]
                                          /\ pc' = [ pc EXCEPT ![t] = "sleep" ]
                                          /\ UNCHANGED outcome
    /\ UNCHANGED << cvars, pool, poolsBuilt, ivars, op, sleeps >>

\* time.sleep(wait_time), then the test that decides on _reconnect_pool().
Sleep(t) ==
    /\ pc[t] = "sleep"
    /\ sleeps' = [ sleeps EXCEPT ![t] = Append(@, wait_time[t]) ]
    /\ pc' = [ pc EXCEPT ![t] = IF Reconnects(op[t], Last(errs[t]).kind) THEN "rc_close"
                                ELSE "attempt" ]
    /\ UNCHANGED << cvars, gvars, hvars, ivars, op, retries, wait_time, calls, errs, poolAt,
                    outcome, ran, applied >>

\* _reconnect_pool: if self.connection: self.connection.close()
\* close() returns the connection to its pool, or raises Error, which ends
\* _reconnect_pool with False.
RcClose(t) ==
    /\ pc[t] = "rc_close"
    /\ IF connection[t] = NoConn
       THEN /\ pc' = [ pc EXCEPT ![t] = "rc_discard" ]
            /\ UNCHANGED connection
       ELSE \/ /\ connection' = [ connection EXCEPT ![t] =
                                    [ @ EXCEPT !.st = "returned", !.closes = Bump(@) ] ]
               /\ pc' = [ pc EXCEPT ![t] = "rc_discard" ]
            \/ /\ connection' = [ connection EXCEPT ![t] = [ @ EXCEPT !.closes = Bump(@) ] ]
               /\ pc' = [ pc EXCEPT ![t] = "attempt" ]
    /\ UNCHANGED << cvars, gvars, cursor, ivars, wvars >>

\* _reconnect_pool: DBConnection._connection_pool = None; then initialize_pool()
RcDiscard(t) ==
    /\ pc[t] = "rc_discard"
    /\ pool' = 0
    /\ old' = [ old EXCEPT ![t] = pool ]
    /\ pc' = [ pc EXCEPT ![t] = "ip_check" ]
    /\ cont' = [ cont EXCEPT ![t] = "rc_get" ]
    /\ UNCHANGED << cvars, poolsBuilt, committed, hvars, built, wvars >>

\* _reconnect_pool: return self._get_connection()
RcGet(t, E) ==
    /\ pc[t] = "rc_get"
    /\ \E acq \in AcqOutcomes(E) :
          LET g == GetConnection(connection[t], cursor[t], acq)
          IN  /\ connection' = [ connection EXCEPT ![t] = g.connection ]
              /\ cursor' = [ cursor EXCEPT ![t] = g.cursor ]
    /\ pc' = [ pc EXCEPT ![t] = "attempt" ]
    /\ UNCHANGED << cvars, gvars, ivars, wvars >>

\* The caller has the result or the exception; the wrapper's frame is gone.
FinishFields(t) ==
    /\ pc[t] = "done"
    /\ pc' = [ pc EXCEPT ![t] = "idle" ]
    /\ op' = [ op EXCEPT ![t] = "none" ]
    /\ retries' = [ retries EXCEPT ![t] = 0 ]
    /\ wait_time' = [ wait_time EXCEPT ![t] = 0 ]
    /\ calls' = [ calls EXCEPT ![t] = 0 ]
    /\ sleeps' = [ sleeps EXCEPT ![t] = << >> ]
    /\ errs' = [ errs EXCEPT ![t] = << >> ]
    /\ poolAt' = [ poolAt EXCEPT ![t] = << >> ]
    /\ outcome' = [ outcome EXCEPT ![t] = NoOutcome ]
    /\ ran' = [ ran EXCEPT ![t] = 0 ]
    /\ applied' = [ applied EXCEPT ![t] = 0 ]

\* A caller that does nothing else with the value in the same step.
Finish(t) ==
    /\ FinishFields(t)
    /\ UNCHANGED << cvars, gvars, hvars, ivars >>

\* if self.connection: self.connection.close()  (close(), second half)
ClosesConnection(c) == c # NoConn

\* close(): the cursor, then self.connection.close() whenever self.connection
\* is set; an Error of the driver is logged, not raised.  self.connection
\* stays set.
CloseFields(t) ==
    /\ cursor' = [ cursor EXCEPT ![t] = FALSE ]
    /\ IF ~ClosesConnection(connection[t])
       THEN UNCHANGED connection
       ELSE /\ connection[t].closes < MaxCloses
            /\ \/ connection' = [ connection EXCEPT ![t] =
                                    [ @ EXCEPT !.st = "returned", !.closes = @ + 1 ] ]
               \/ connection' = [ connection EXCEPT ![t] = [ @ EXCEPT !.closes = @ + 1 ] ]

\* A caller that manages the handle by hand calls close().
Close(t) ==
    /\ pc[t] = "idle"
    /\ CloseFields(t)
    /\ UNCHANGED << cvars, gvars, pc, ivars, wvars >>

\* The server or the network drops the socket of a borrowed connection.  The
\* handle can tell only at its next is_connected(), so the drop is placed where
\* the thread is about to call a method of the handle.
Drop(t) ==
    /\ pc[t] \in { "idle", "attempt" }
    /\ connection[t].st = "live"
    /\ connection' = [ connection EXCEPT ![t] = [ @ EXCEPT !.st = "dead" ] ]
    /\ UNCHANGED << cvars, gvars, cursor, pc, ivars, wvars >>

\* The handle goes out of scope; the thread serves its next request.
Forget(t) ==
    /\ pc[t] = "idle"
    /\ pc' = [ pc EXCEPT ![t] = "new" ]
    /\ connection' = [ connection EXCEPT ![t] = NoConn ]
    /\ cursor' = [ cursor EXCEPT ![t] = FALSE ]
    /\ scope' = [ scope EXCEPT ![t] = NoScope ]
    /\ users' = [ users EXCEPT ![t] = { } ]
    /\ probe' = [ probe EXCEPT ![t] = NoProbe ]
    /\ recon' = [ recon EXCEPT ![t] = NoRecon ]
    /\ upshot' = [ upshot EXCEPT ![t] = NoUpshot ]
    /\ legacy' = [ legacy EXCEPT ![t] = NoLegacy ]
    /\ UNCHANGED << gvars, ivars, wvars >>

\* ------------------------------------------------------- is_connected()
\* What cursor.execute("SELECT 1") can do: return, or raise an Error.
SelectAnswers(E) == { so \in E.so : so = "ok" \/ IsError(so) }

ProbeValueFalse(c, so) == FALSE

\* if self.connection and self.connection.is_connected(): cursor.execute
\* ("SELECT 1"); return True ... return False; except Error: return False
ProbeValue(c, so) == c # NoConn /\ IsConnected(c) /\ so = "ok"

\* DBConnection.is_connected() on the handle of thread t.  The AttributeError
\* of a connection object that went back to its pool is no Error: it leaves
\* the method.
is_connected(t, E) ==
    /\ pc[t] = "idle"
    /\ \E ic \in IcAnswers(E, connection[t]), so \in SelectAnswers(E) :
          LET c    == connection[t]
              sent == c # NoConn /\ ~IsConnectedRaises(c, ic) /\ IsConnected(c)
          IN  probe' = [ probe EXCEPT ![t] =
                  [ st     |-> c.st,
                    select |-> IF ~sent THEN "none" ELSE IF so = "ok" THEN "ok" ELSE "failed",
                    out    |-> IF c # NoConn /\ IsConnectedRaises(c, ic)
                               THEN Raised(0, "NoneAttr")
                               ELSE Returned(0, PyBool(ProbeValue(c, so))) ] ]
    /\ UNCHANGED << scope, users, rvars, gvars, hvars, pc, ivars, wvars >>

\* ---------------------------------------------------------- reconnect()
\* if not self.is_connected(): self.close(); return self._get_connection()
\* return True
\* The part up to close().  The AttributeError of is_connected() leaves
\* reconnect() too.
reconnect(t, E) ==
    /\ pc[t] = "idle"
    /\ \E ic \in IcAnswers(E, connection[t]), so \in SelectAnswers(E) :
          LET c == connection[t]
          IN  IF c # NoConn /\ IsConnectedRaises(c, ic)
              THEN /\ recon' = [ recon EXCEPT ![t] =
                                   [ got |-> "none", out |-> Raised(0, "NoneAttr") ] ]
                   /\ UNCHANGED << hvars, pc >>
              ELSE IF ProbeValue(c, so)
              THEN /\ recon' = [ recon EXCEPT ![t] =
                                   [ got |-> "none", out |-> Returned(0, PyBool(TRUE)) ] ]
                   /\ UNCHANGED << hvars, pc >>
              ELSE /\ recon' = [ recon EXCEPT ![t] = NoRecon ]
                   /\ CloseFields(t)
                   /\ pc' = [ pc EXCEPT ![t] = "reconnect_get" ]
    /\ UNCHANGED << scope, users, probe, upshot, legacy, gvars, ivars, wvars >>

\* reconnect(): return self._get_connection()
ReconnectGet(t, E) ==
    /\ pc[t] = "reconnect_get"
    /\ \E acq \in AcqOutcomes(E) :
          LET g == GetConnection(connection[t], cursor[t], acq)
          IN  /\ connection' = [ connection EXCEPT ![t] = g.connection ]
              /\ cursor' = [ cursor EXCEPT ![t] = g.cursor ]
              /\ recon' = [ recon EXCEPT ![t] =
                              [ got |-> IF g.ok THEN "True" ELSE IF g.err THEN "Error"
                                        ELSE "False",
                                out |-> Returned(0, PyBool(g.ok)) ] ]
    /\ pc' = [ pc EXCEPT ![t] = "idle" ]
    /\ UNCHANGED << scope, users, probe, upshot, legacy, gvars, ivars, wvars >>

\* ------------------------------------------- the legacy cursor methods
LegacyMethods == { "execute", "fetchone", "fetchall" }

\* The property cursor on a handle with fields (c, cur):
\* if self._cursor is None or not self.connection.is_connected():
\*     if self.connection and self.connection.is_connected():
\*         self._cursor = self.connection.cursor(dictionary=True)
\*     else: self._get_connection()
\* return self._cursor
\* raised is the exception of an attribute looked up on None, by the
\* interpreter for self.connection or by the driver for a released
\* connection.
LegacyCursor(c, cur, ic, acq) ==
    LET same == [ connection |-> c, cursor |-> cur, raised |-> "none" ]
        g    == GetConnection(c, cur, acq)
    IN  IF cur /\ c = NoConn
        THEN [ same EXCEPT !.raised = "NoneAttr" ]
        ELSE IF c # NoConn /\ IsConnectedRaises(c, ic)
        THEN [ same EXCEPT !.raised = "NoneAttr" ]
        ELSE IF cur /\ IsConnected(c)
        THEN same
        ELSE IF c # NoConn /\ IsConnected(c)
        THEN [ same EXCEPT !.cursor = TRUE ]
        ELSE [ connection |-> g.connection, cursor |-> g.cursor, raised |-> "none" ]

\* execute / fetchone / fetchall of the handle of thread t: if self.cursor:
\* return self.cursor.<method>(...); raise Error("No database connection
\* available").  so is what the cursor's method does.
Legacy(t, E) ==
    /\ pc[t] = "idle"
    /\ \E m \in LegacyMethods, ic \in IcAnswers(E, connection[t]),
          acq \in AcqOutcomes(E), so \in SelectAnswers(E) :
          LET g == LegacyCursor(connection[t], cursor[t], ic, acq)
              v == CASE m = "execute"  -> PyNone
                     [] m = "fetchone" -> FetchOne(Visible(g.connection))
                     [] OTHER          -> FetchAll(Visible(g.connection))
          IN  /\ connection' = [ connection EXCEPT ![t] = g.connection ]
              /\ cursor' = [ cursor EXCEPT ![t] = g.cursor ]
              /\ legacy' = [ legacy EXCEPT ![t] =
                    [ by  |-> m,
                      out |-> IF g.raised # "none" THEN Raised(0, g.raised)
                              ELSE IF ~g.cursor THEN Raised(0, "NoDatabase")
                              ELSE IF so = "ok" THEN Returned(0, v)
                              ELSE Raised(0, so) ] ]
    /\ UNCHANGED << scope, users, probe, recon, upshot, gvars, pc, ivars, wvars >>

\* ---------------------------------------------------------- consumers
\* User.update_first_name ... delete_user: database = DBConnection(); try:
\* success = database.execute_query(query, params) is not None; return
\* {flag: success}; except Exception: return {flag: False}; finally:
\* database.close()
UserMutations == { "update_first_name", "update_last_name", "update_email",
                   "update_password", "update_doctor_key", "delete_user" }

\* Emotion.save_emotion_analysis, Emotion.get_user_emotions and
\* Subscription.update_subscription_status: return self.db_conn.<method>(query,
\* params), outside any try statement.
Unguarded == { "save_emotion_analysis", "get_user_emotions", "update_subscription_status" }

Consumers == UserMutations \cup Unguarded

\* The wrapped method a consumer method calls.
ConsumerOp(m) == IF m = "get_user_emotions" THEN "fetch_all" ELSE "execute_query"

\* The call is inside try ... except Exception.
Catches(m) == m \in UserMutations

\* The method constructs its handle and closes it in a finally clause.
OwnsHandle(m) == m \in UserMutations

\* What consumer method m gives its caller when the wrapped method gave it out.
ConsumerResult(m, out) ==
    IF out.kind = "raised"
    THEN IF Catches(m) THEN Returned(0, PyFlags(FALSE)) ELSE Raised(0, out.exc)
    ELSE IF m \in UserMutations
    THEN Returned(0, PyFlags(out.val # PyNone))
    ELSE Returned(0, out.val)

\* The wrapped method is back in consumer method m, which ends: its except
\* clause or its return statement, and its finally clause.
Deliver(t, ms) ==
    /\ pc[t] = "done"
    /\ \E m \in ms :
          /\ ConsumerOp(m) = op[t]
          /\ upshot' = [ upshot EXCEPT ![t] =
                           [ NoUpshot EXCEPT !.by = m, !.call = outcome[t],
                                             !.out = ConsumerResult(m, outcome[t]) ] ]
          /\ IF OwnsHandle(m) THEN CloseFields(t) ELSE UNCHANGED hvars
    /\ pc' = [ pc EXCEPT ![t] = "idle" ]
    /\ op' = [ op EXCEPT ![t] = "none" ]
    /\ retries' = [ retries EXCEPT ![t] = 0 ]
    /\ wait_time' = [ wait_time EXCEPT ![t] = 0 ]
    /\ calls' = [ calls EXCEPT ![t] = 0 ]
    /\ sleeps' = [ sleeps EXCEPT ![t] = << >> ]
    /\ errs' = [ errs EXCEPT ![t] = << >> ]
    /\ poolAt' = [ poolAt EXCEPT ![t] = << >> ]
    /\ outcome' = [ outcome EXCEPT ![t] = NoOutcome ]
    /\ ran' = [ ran EXCEPT ![t] = 0 ]
    /\ applied' = [ applied EXCEPT ![t] = 0 ]
    /\ UNCHANGED << scope, users, probe, recon, legacy, gvars, ivars >>

\* -------------------------------------------------- the handle as a scope
EnterValueNone(h) == 0

\* __enter__: return self.  A handle is named by the thread that made it.
EnterValue(h) == h

ExitValueTrue == TRUE

\* __exit__ ends after self.close() without a return statement: it returns
\* None, which is false.
ExitValue == FALSE

\* with DBConnection() as db:  __enter__ on the handle just constructed.
Enter(t) ==
    /\ pc[t] = "idle"
    /\ scope[t].kind = "none"
    /\ scope' = [ scope EXCEPT ![t] = [ NoScope EXCEPT !.kind = "with",
                                                       !.bound = EnterValue(t) ] ]
    /\ UNCHANGED << users, probe, rvars, gvars, hvars, pc, ivars, wvars >>

\* A statement of the with body: a wrapped method of the handle.
BodyCall(t, E) ==
    /\ scope[t].kind = "with"
    /\ Call(t, E)

\* The body is left, by its last statement or by the exception a wrapped
\* method raised: __exit__(exc_type, exc_val, exc_tb) runs self.close(); the
\* with statement lets the exception go on unless __exit__ returned true.
ExitFields(t) ==
    /\ scope[t].kind = "with"
    /\ pc[t] \in { "idle", "done" }
    /\ LET exc == IF pc[t] = "done" /\ outcome[t].kind = "raised"
                  THEN outcome[t].exc ELSE "none"
       IN  scope' = [ scope EXCEPT ![t] =
                        [ @ EXCEPT !.kind = "left", !.exits = @ + 1, !.body = exc,
                                   !.out = IF ExitValue THEN "none" ELSE exc ] ]
    /\ CloseFields(t)
    /\ pc' = [ pc EXCEPT ![t] = "idle" ]
    /\ op' = [ op EXCEPT ![t] = "none" ]
    /\ retries' = [ retries EXCEPT ![t] = 0 ]
    /\ wait_time' = [ wait_time EXCEPT ![t] = 0 ]
    /\ calls' = [ calls EXCEPT ![t] = 0 ]
    /\ sleeps' = [ sleeps EXCEPT ![t] = << >> ]
    /\ errs' = [ errs EXCEPT ![t] = << >> ]
    /\ poolAt' = [ poolAt EXCEPT ![t] = << >> ]
    /\ outcome' = [ outcome EXCEPT ![t] = NoOutcome ]
    /\ ran' = [ ran EXCEPT ![t] = 0 ]
    /\ applied' = [ applied EXCEPT ![t] = 0 ]

\* A with statement of a caller that does nothing else in the same step.
Exit(t) ==
    /\ ExitFields(t)
    /\ UNCHANGED << users, probe, rvars, gvars, ivars >>

\* ------------------------------------------------------ Login, try_login
\* An outcome without the number of the attempt that gave it.
Plain(o) == [ o EXCEPT !.at = 0 ]

\* What the stored hash and bcrypt.checkpw do with the supplied password: the
\* hash matches it or not, the column is empty, or checkpw rejects the hash
\* with ValueError.
PwAnswers == { "match", "mismatch", "nohash", "raise" }

\* validate_password: exc is the exception that left "with DBConnection() as
\* db" (both except clauses return the same mapping), val what fetch_one
\* returned.
ValidatePassword(exc, val, pw) ==
    IF exc # "none" THEN PyValidated(FALSE, FALSE)
    ELSE IF val = PyNone THEN PyValidated(FALSE, FALSE)
    ELSE IF pw = "nohash" THEN PyValidated(FALSE, FALSE)
    ELSE IF pw = "raise" THEN PyValidated(FALSE, FALSE)
    ELSE PyValidated(TRUE, pw = "match")

LoginResultCatchesErrorOnly(exc, val, v) ==
    IF exc # "none"
    THEN IF IsError(exc) THEN Returned(0, PyLogin(FALSE, "Database error"))
         ELSE Raised(0, exc)
    ELSE IF val = PyNone THEN Returned(0, PyLogin(FALSE, "Email not found"))
    ELSE IF v.matches = TRUE THEN Returned(0, PyLogin(TRUE, "none"))
    ELSE Returned(0, PyLogin(FALSE, "Invalid password"))

\* login: exc is the exception that left its with statement, val what its
\* fetch_one returned, v what validate_password returned.
LoginResult(exc, val, v) ==
    IF exc # "none"
    THEN IF IsError(exc) THEN Returned(0, PyLogin(FALSE, "Database error"))
         ELSE Returned(0, PyLogin(FALSE, "Unexpected error"))
    ELSE IF val = PyNone THEN Returned(0, PyLogin(FALSE, "Email not found"))
    ELSE IF v.matches = TRUE THEN Returned(0, PyLogin(TRUE, "none"))
    ELSE Returned(0, PyLogin(FALSE, "Invalid password"))

\* try_login after login returned result: case True redirects to myspace
\* without a message; case False | None looks up result["invalid_password"]
\* and flashes by whether that raised KeyError.
TryLoginFlash(result) ==
    IF result.login_succeeded THEN "none"
    ELSE IF "invalid_password" \in result.keys THEN "Password is incorrect"
    ELSE "This email does not exist"

\* try_login calls Login().login(email, password).  The handle of login is
\* handle 1 and the one of validate_password handle 2, both of the request
\* thread 1.
LoginCall ==
    /\ upshot[1].by = "none"
    /\ pc[1] = "new" /\ pc[2] = "new"
    /\ upshot' = [ upshot EXCEPT ![1] = [ NoUpshot EXCEPT !.by = "login", !.at = "email" ] ]
    /\ UNCHANGED << scope, users, probe, recon, legacy, gvars, hvars, pc, ivars, wvars >>

\* The steps of "with DBConnection() as db: result = db.fetch_one(...)" on
\* handle h, taken while login stands at position at.
LoginHandle(h, at, E) ==
    /\ upshot[1].at = at
    /\ \/ CtorBy(1, h)
       \/ CtorGet(h, E)
       \/ IpCheck(h)
       \/ IpBuild(h)
       \/ Enter(h)
       \/ scope[h].kind = "with" /\ outcome[h] = NoOutcome /\ CallBy(1, h, E)
       \/ Attempt(h, E)
       \/ Sleep(h)
       \/ RcClose(h)
       \/ RcDiscard(h)
       \/ RcGet(h, E)

\* login after its fetch_one: an exception leaves the with statement and is
\* caught; no row, "Email not found"; a row, validate_password is called.
\* try_login then shows its message.
LoginLookedUp ==
    /\ upshot[1].at = "email"
    /\ pc[1] = "done"
    /\ IF outcome[1].kind = "returned" /\ outcome[1].val # PyNone
       THEN /\ upshot' = [ upshot EXCEPT ![1] =
                            [ @ EXCEPT !.at = "password", !.trail = << Plain(outcome[1]) >> ] ]
            /\ UNCHANGED << scope, hvars, pc, wvars >>
       ELSE /\ ExitFields(1)
            /\ LET r == LoginResult(scope'[1].out, outcome[1].val, PyValidated(FALSE, FALSE))
               IN  upshot' = [ upshot EXCEPT ![1] =
                     [ @ EXCEPT !.at = "none", !.trail = << Plain(outcome[1]) >>, !.out = r,
                                !.flash = IF r.kind = "returned"
                                          THEN TryLoginFlash(r.val) ELSE "none" ] ]
    /\ UNCHANGED << users, probe, recon, legacy, gvars, ivars >>

\* validate_password after its fetch_one, to its return.
ValidateReturn ==
    /\ upshot[1].at = "password"
    /\ pc[2] = "done"
    /\ ExitFields(2)
    /\ \E pw \in IF outcome[2].kind = "returned" /\ outcome[2].val # PyNone
                  THEN PwAnswers ELSE { "unused" } :
          upshot' = [ upshot EXCEPT ![1] =
            [ @ EXCEPT !.at = "validated",
                       !.trail = @ \o << Plain(outcome[2]), pw >>,
                       !.call = Returned(0, ValidatePassword(scope'[2].out,
                                                             outcome[2].val, pw)) ] ]
    /\ UNCHANGED << users, probe, recon, legacy, gvars, ivars >>

\* login from the return of validate_password to its own, and try_login's
\* message.
LoginReturn ==
    /\ upshot[1].at = "validated"
    /\ ExitFields(1)
    /\ LET r == LoginResult(scope'[1].out, upshot[1].trail[1].val, upshot[1].call.val)
       IN  upshot' = [ upshot EXCEPT ![1] =
             [ @ EXCEPT !.at = "none", !.out = r,
                        !.flash = IF r.kind = "returned"
                                  THEN TryLoginFlash(r.val) ELSE "none" ] ]
    /\ UNCHANGED << users, probe, recon, legacy, gvars, ivars >>

\* The request is over: the handles are garbage, the next request follows.
LoginOver ==
    /\ upshot[1].by = "login" /\ upshot[1].at = "none"
    /\ IF pc[2] # "new" THEN Forget(2) ELSE Forget(1)

\* ------------------------------------ is_premium_user, premium_required
\* get_user_subscription after its probe: return self.db_conn.fetch_one(...);
\* except Exception: return None.
GetUserSubscription(o) == IF o.kind = "raised" THEN PyNone ELSE o.val

IsPremiumUserCatchesErrorOnly(exc, sub) ==
    IF exc # "none"
    THEN IF IsError(exc) THEN Returned(0, PyBool(FALSE)) ELSE Raised(0, exc)
    ELSE Returned(0, PyBool(sub # PyNone))

\* is_premium_user: exc is an exception raised inside its try block (by a
\* probe or a reconnect), sub what get_user_subscription returned.
\* return subscription is not None; except Exception: return False.
IsPremiumUser(exc, sub) ==
    IF exc # "none" THEN Returned(0, PyBool(FALSE))
    ELSE Returned(0, PyBool(sub # PyNone))

\* decorated_function: redirect to login, redirect to premium, or run f; an
\* exception of is_premium_user would leave it.
PremiumRequired(loggedin, premium) ==
    IF ~loggedin THEN "login"
    ELSE IF premium.kind = "raised" THEN "raised"
    ELSE IF premium.val # PyBool(TRUE) THEN "premium"
    ELSE "handler"

\* What the consumer notes of a call it made on the handle.
Step(name, o) == [ step |-> name, out |-> Plain(o) ]

\* is_premium_user is left with exception exc or with subscription sub, and
\* decorated_function acts on its value.
PremiumEnds(exc, sub) ==
    LET r == IsPremiumUser(exc, sub)
    IN  [ at |-> "none", out |-> r, flash |-> PremiumRequired(TRUE, r) ]

\* A request reaches a route under @premium_required: is_loggedin(), then
\* subscription_manager.is_premium_user(...) on the global handle (handle 1).
PremiumCall ==
    /\ upshot[1].by = "none"
    /\ pc[1] = "idle"
    /\ \E li \in BOOLEAN :
          upshot' = [ upshot EXCEPT ![1] =
            [ NoUpshot EXCEPT !.by = "premium_required",
                              !.at = IF li THEN "probe" ELSE "none",
                              !.trail = << Step("is_loggedin", Returned(0, PyBool(li))) >>,
                              !.flash = PremiumRequired(li, NoOutcome) ] ]
    /\ UNCHANGED << scope, users, probe, recon, legacy, gvars, hvars, pc, ivars, wvars >>

\* if not self.db_conn.is_connected(): in is_premium_user (at "probe") and
\* in get_user_subscription (at "probe2").
PremiumProbe(E) ==
    /\ upshot[1].at \in { "probe", "probe2" }
    /\ probe[1] = NoProbe
    /\ is_connected(1, E)

\* The value of the probe decides: reconnect, go on, or leave through
\* is_premium_user's except clause.
PremiumProbed ==
    /\ upshot[1].at \in { "probe", "probe2" }
    /\ probe[1].out.kind # "none"
    /\ LET o    == probe[1].out
           here == upshot[1].at
           e    == IF o.kind = "raised" THEN PremiumEnds(o.exc, PyNone)
                   ELSE [ at  |-> IF o.val = PyBool(TRUE)
                                  THEN (IF here = "probe" THEN "probe2" ELSE "query")
                                  ELSE (IF here = "probe" THEN "reconnect" ELSE "reconnect2"),
                          out |-> NoOutcome, flash |-> "none" ]
       IN  upshot' = [ upshot EXCEPT ![1] =
             [ @ EXCEPT !.at = e.at, !.out = e.out, !.flash = e.flash,
                        !.trail = Append(@, Step("is_connected", o)) ] ]
    /\ probe' = [ probe EXCEPT ![1] = NoProbe ]
    /\ UNCHANGED << scope, users, recon, legacy, gvars, hvars, pc, ivars, wvars >>

\* self.db_conn.reconnect()
PremiumReconnect(E) ==
    /\ upshot[1].at \in { "reconnect", "reconnect2" }
    /\ recon[1] = NoRecon
    /\ \/ reconnect(1, E)
       \/ ReconnectGet(1, E)

\* The value of reconnect() is dropped; its exception leaves is_premium_user
\* through the except clause.
PremiumReconnected ==
    /\ upshot[1].at \in { "reconnect", "reconnect2" }
    /\ recon[1].out.kind # "none"
    /\ LET o    == recon[1].out
           here == upshot[1].at
           e    == IF o.kind = "raised" THEN PremiumEnds(o.exc, PyNone)
                   ELSE [ at  |-> IF here = "reconnect" THEN "probe2" ELSE "query",
                          out |-> NoOutcome, flash |-> "none" ]
       IN  upshot' = [ upshot EXCEPT ![1] =
             [ @ EXCEPT !.at = e.at, !.out = e.out, !.flash = e.flash,
                        !.trail = Append(@, Step("reconnect", o)) ] ]
    /\ recon' = [ recon EXCEPT ![1] = NoRecon ]
    /\ UNCHANGED << scope, users, probe, legacy, gvars, hvars, pc, ivars, wvars >>

\* get_user_subscription: self.db_conn.fetch_one(query, params), through the
\* retry wrapper.
PremiumQuery(E) ==
    /\ upshot[1].at = "query"
    /\ \/ outcome[1] = NoOutcome /\ \E w \in Threads : CallBy(w, 1, E)
       \/ Attempt(1, E)
       \/ Sleep(1)
       \/ RcClose(1)
       \/ RcDiscard(1)
       \/ RcGet(1, E)

\* get_user_subscription returns, is_premium_user returns, and
\* decorated_function redirects or runs the handler.
PremiumReturn ==
    /\ upshot[1].at = "query"
    /\ FinishFields(1)
    /\ LET e == PremiumEnds("none", GetUserSubscription(outcome[1]))
       IN  upshot' = [ upshot EXCEPT ![1] =
             [ @ EXCEPT !.at = e.at, !.out = e.out, !.flash = e.flash,
                        !.call = Plain(outcome[1]) ] ]
    /\ UNCHANGED << scope, users, probe, recon, legacy, gvars, hvars, ivars >>

\* The response is sent; the global handle stays for the next request.
PremiumOver ==
    /\ upshot[1].by = "premium_required" /\ upshot[1].at = "none"
    /\ upshot' = [ upshot EXCEPT ![1] = NoUpshot ]
    /\ UNCHANGED << scope, users, probe, recon, legacy, gvars, hvars, pc, ivars, wvars >>

\* ------------------------------------------------------- specifications
\* The module's last line has run DBConnection.initialize_pool() once; no
\* handle exists yet.
Init ==
    /\ pool \in { 0, 1 }
    /\ poolsBuilt = pool
    /\ committed = 0
    /\ connection = [ t \in Threads |-> NoConn ]
    /\ cursor = [ t \in Threads |-> FALSE ]
    /\ pc = [ t \in Threads |-> "new" ]
    /\ cont = [ t \in Threads |-> "idle" ]
    /\ built = [ t \in Threads |-> "none" ]
    /\ old = [ t \in Threads |-> 0 ]
    /\ op = [ t \in Threads |-> "none" ]
    /\ retries = [ t \in Threads |-> 0 ]
    /\ wait_time = [ t \in Threads |-> 0 ]
    /\ calls = [ t \in Threads |-> 0 ]
    /\ sleeps = [ t \in Threads |-> << >> ]
    /\ errs = [ t \in Threads |-> << >> ]
    /\ poolAt = [ t \in Threads |-> << >> ]
    /\ outcome = [ t \in Threads |-> NoOutcome ]
    /\ ran = [ t \in Threads |-> 0 ]
    /\ scope = [ t \in Threads |-> NoScope ]
    /\ users = [ t \in Threads |-> { } ]
    /\ probe = [ t \in Threads |-> NoProbe ]
    /\ applied = [ t \in Threads |-> 0 ]
    /\ recon = [ t \in Threads |-> NoRecon ]
    /\ upshot = [ t \in Threads |-> NoUpshot ]
    /\ legacy = [ t \in Threads |-> NoLegacy ]

\* One request thread: the subsystem as a sequential program.
Next ==
    \/ Ctor(1)
    \/ CtorGet(1, FullEnv)
    \/ CallInitializePool(1)
    \/ IpCheck(1)
    \/ IpBuild(1)
    \/ Call(1, FullEnv)
    \/ Attempt(1, FullEnv)
    \/ Sleep(1)
    \/ RcClose(1)
    \/ RcDiscard(1)
    \/ RcGet(1, FullEnv)
    \/ Finish(1)
    \/ Close(1)
    \/ Drop(1)
    \/ Forget(1)

Spec == Init /\ [][Next]_vars

\* Request threads (waitress serves with threads=8), each with its own handle,
\* interleaved statement by statement.  Thread 1 runs fetch_one through the
\* retry wrapper against a server that answers or loses the connection; the
\* other threads construct, close and drop handles meanwhile.
ThreadsEnv == [ ops |-> { "fetch_one" }, so |-> { "ok", "LostConnection" },
                acq |-> { "live", "error" }, rb |-> { "ok" }, stage |-> { "execute" },
                ic |-> { "false" }, rowid |-> { "id" }, rows |-> { "table" },
                commits |-> MaxCommits ]

NextThreads ==
    \/ Call(1, ThreadsEnv)
    \/ Attempt(1, ThreadsEnv)
    \/ Sleep(1)
    \/ RcClose(1)
    \/ RcDiscard(1)
    \/ RcGet(1, ThreadsEnv)
    \/ Finish(1)
    \/ \E t \in Threads :
          \/ Ctor(t)
          \/ CtorGet(t, ThreadsEnv)
          \/ IpCheck(t)
          \/ IpBuild(t)
          \/ Close(t)
          \/ Forget(t)

SpecThreads == Init /\ [][NextThreads]_vars

\* Login.login and Login.validate_password: a request thread constructs a
\* handle, uses it as the target of a with statement whose body calls
\* fetch_one, and lets it go.
ScopedEnv == [ ops |-> { "fetch_one" }, so |-> { "ok", "LostConnection", "Syntax", "TypeError" },
               acq |-> { "live", "stale", "error" }, rb |-> { "ok" },
               stage |-> { "execute" }, ic |-> { "false", "raise" },
               rowid |-> { "id" }, rows |-> { "table" }, commits |-> MaxCommits ]

NextScoped ==
    \/ Ctor(1)
    \/ CtorGet(1, ScopedEnv)
    \/ IpCheck(1)
    \/ IpBuild(1)
    \/ Enter(1)
    \/ BodyCall(1, ScopedEnv)
    \/ Attempt(1, ScopedEnv)
    \/ Sleep(1)
    \/ RcClose(1)
    \/ RcDiscard(1)
    \/ RcGet(1, ScopedEnv)
    \/ Finish(1)
    \/ Exit(1)
    \/ Drop(1)
    \/ Forget(1)

SpecScoped == Init /\ [][NextScoped]_vars

\* app.py: the importing thread constructs db_connection (handle 1) and binds
\* it to a module global; the request threads that waitress runs hand it to
\* Emotion and Subscription, whose methods call execute_query, fetch_one and
\* fetch_all on it.  No code closes it.  The calls on the handle are taken one
\* after the other.
AppEnv == [ ops |-> Ops, so |-> { "ok", "LostConnection" }, acq |-> { "live", "error" },
            rb |-> { "ok" }, stage |-> { "execute" }, ic |-> { "false", "raise" },
            rowid |-> { "id" }, rows |-> { "table" }, commits |-> MaxCommits ]

NextApp ==
    \/ CtorBy(Main, 1)
    \/ CtorGet(1, AppEnv)
    \/ IpCheck(1)
    \/ IpBuild(1)
    \/ \E w \in Threads : CallBy(w, 1, AppEnv)
    \/ Attempt(1, AppEnv)
    \/ Sleep(1)
    \/ RcClose(1)
    \/ RcDiscard(1)
    \/ RcGet(1, AppEnv)
    \/ Finish(1)
    \/ Drop(1)

SpecApp == Init /\ [][NextApp]_vars

\* One request thread that writes and reads through one handle, against a
\* server whose commit and rollback can fail: a statement raises in
\* cursor.execute, in connection.commit, or after the commit has taken
\* effect.
TxnEnv == [ ops |-> { "execute_query", "fetch_one" }, so |-> { "ok", "ServerGone" },
            acq |-> { "live", "error" }, rb |-> { "ok", "fail" },
            stage |-> { "execute", "commit", "after" }, ic |-> { "false" },
            rowid |-> { "id" }, rows |-> { "table" }, commits |-> MaxCommits + 1 ]

NextTxn ==
    \/ Ctor(1)
    \/ CtorGet(1, TxnEnv)
    \/ IpCheck(1)
    \/ IpBuild(1)
    \/ Call(1, TxnEnv)
    \/ Attempt(1, TxnEnv)
    \/ Sleep(1)
    \/ RcClose(1)
    \/ RcDiscard(1)
    \/ RcGet(1, TxnEnv)
    \/ Finish(1)
    \/ Drop(1)
    \/ Forget(1)

SpecTxn == Init /\ [][NextTxn]_vars

\* tests/test_db.py and Subscription: handles that are constructed, asked
\* is_connected(), reconnected, closed and let go, while the server may drop
\* their sockets.
ProbeEnv == [ ops |-> { }, so |-> { "ok", "LostConnection" },
              acq |-> { "live", "stale", "error" }, rb |-> { "ok" },
              stage |-> { "execute" }, ic |-> { "false", "raise" },
              rowid |-> { "id" }, rows |-> { "table" }, commits |-> MaxCommits ]

NextProbe ==
    \/ Ctor(1)
    \/ CtorGet(1, ProbeEnv)
    \/ CallInitializePool(1)
    \/ IpCheck(1)
    \/ IpBuild(1)
    \/ is_connected(1, ProbeEnv)
    \/ reconnect(1, ProbeEnv)
    \/ ReconnectGet(1, ProbeEnv)
    \/ Close(1)
    \/ Drop(1)
    \/ Forget(1)

SpecProbe == Init /\ [][NextProbe]_vars

\* One caller that uses a handle through the legacy cursor methods only,
\* closing it and dropping it in between.
NextLegacy ==
    \/ Ctor(1)
    \/ CtorGet(1, ProbeEnv)
    \/ CallInitializePool(1)
    \/ IpCheck(1)
    \/ IpBuild(1)
    \/ Legacy(1, ProbeEnv)
    \/ Close(1)
    \/ Drop(1)
    \/ Forget(1)

SpecLegacy == Init /\ [][NextLegacy]_vars

\* Requests to a premium route: the global handle of app.py, made by the
\* importing thread; an active subscription row of the user is there ("one")
\* or not ("table"), the server answers or loses the connection, and the
\* socket of the handle can drop between requests.
PremiumEnv == [ ops |-> { "fetch_one" }, so |-> { "ok", "LostConnection" },
                acq |-> { "live", "error" }, rb |-> { "ok" }, stage |-> { "execute" },
                ic |-> { "false", "raise" }, rowid |-> { "id" },
                rows |-> { "table", "one" }, commits |-> MaxCommits ]

NextPremium ==
    \/ CtorBy(Main, 1)
    \/ CtorGet(1, PremiumEnv)
    \/ IpCheck(1)
    \/ IpBuild(1)
    \/ PremiumCall
    \/ PremiumProbe(PremiumEnv)
    \/ PremiumProbed
    \/ PremiumReconnect(PremiumEnv)
    \/ PremiumReconnected
    \/ PremiumQuery(PremiumEnv)
    \/ PremiumReturn
    \/ PremiumOver
    \/ Drop(1)

SpecPremium == Init /\ [][NextPremium]_vars

\* One request that logs in: the row of the email is there ("one") or not
\* ("table": nothing was ever committed) at each of the two lookups, the
\* server answers, loses the connection or the driver raises TypeError.
LoginEnv == [ ops |-> { "fetch_one" }, so |-> { "ok", "LostConnection", "TypeError" },
              acq |-> { "live", "error" }, rb |-> { "ok" }, stage |-> { "execute" },
              ic |-> { "false" }, rowid |-> { "id" }, rows |-> { "table", "one" },
              commits |-> MaxCommits ]

NextLogin ==
    \/ LoginCall
    \/ LoginHandle(1, "email", LoginEnv)
    \/ LoginLookedUp
    \/ LoginHandle(2, "password", LoginEnv)
    \/ ValidateReturn
    \/ LoginReturn
    \/ LoginOver

SpecLogin == Init /\ [][NextLogin]_vars

\* One request thread that has a handle and calls fetch_one on it and the
\* static execute_quick_query beside it, against a server that answers, loses
\* the connection or rejects the statement.
QuickEnv == [ ops |-> { "fetch_one" } \cup QuickOps,
              so |-> { "ok", "LostConnection", "Syntax" },
              acq |-> { "live", "error" }, rb |-> { "ok" }, stage |-> { "execute" },
              ic |-> { "false" }, rowid |-> { "id" }, rows |-> { "table" },
              commits |-> MaxCommits ]

NextQuick ==
    \/ Ctor(1)
    \/ CtorGet(1, QuickEnv)
    \/ IpCheck(1)
    \/ IpBuild(1)
    \/ Call(1, QuickEnv)
    \/ Attempt(1, QuickEnv)
    \/ Sleep(1)
    \/ RcClose(1)
    \/ RcDiscard(1)
    \/ RcGet(1, QuickEnv)
    \/ Finish(1)
    \/ Forget(1)

SpecQuick == Init /\ [][NextQuick]_vars

\* tests/test_db.py: one handle, asked is_connected(), used for SELECT 1
\* through fetch_one, fetch_all and execute_query, and closed, against a
\* server that answers or loses the connection during a statement.
TestEnv == [ ops |-> Ops, so |-> { "ok", "LostConnection" }, acq |-> { "live" },
             rb |-> { "ok" }, stage |-> { "execute" }, ic |-> { "false" },
             rowid |-> { "id", "zero", "none" }, rows |-> { "one" },
             commits |-> MaxCommits ]

NextTest ==
    \/ Ctor(1)
    \/ CtorGet(1, TestEnv)
    \/ IpCheck(1)
    \/ IpBuild(1)
    \/ is_connected(1, TestEnv)
    \/ Call(1, TestEnv)
    \/ Attempt(1, TestEnv)
    \/ Sleep(1)
    \/ RcClose(1)
    \/ RcDiscard(1)
    \/ RcGet(1, TestEnv)
    \/ Finish(1)
    \/ Close(1)
    \/ Forget(1)

SpecTest == Init /\ [][NextTest]_vars

\* User, Emotion and Subscription: a request thread runs consumer methods,
\* each of which calls one wrapped method of a handle and hands the outcome to
\* the route layer; the statement is an INSERT, or an UPDATE or DELETE that
\* generates no row id.
ConsumerEnv == [ ops |-> { "execute_query", "fetch_all" },
                 so |-> { "ok", "LostConnection" },
                 acq |-> { "live" }, rb |-> { "ok" }, stage |-> { "execute" },
                 ic |-> { "false" }, rowid |-> { "id", "zero", "none" },
                 rows |-> { "table" }, commits |-> MaxCommits ]

NextConsumers ==
    \/ Ctor(1)
    \/ CtorGet(1, ConsumerEnv)
    \/ IpCheck(1)
    \/ IpBuild(1)
    \/ Call(1, ConsumerEnv)
    \/ Attempt(1, ConsumerEnv)
    \/ Sleep(1)
    \/ RcClose(1)
    \/ RcDiscard(1)
    \/ RcGet(1, ConsumerEnv)
    \/ Deliver(1, Consumers)
    \/ Forget(1)

SpecConsumers == Init /\ [][NextConsumers]_vars

\* --------------------------------------------------------------- claims
AllErrs(t, P(_)) == \A i \in 1 .. Len(errs[t]) : P(errs[t][i].kind)
EveryCallRaised(t) == calls[t] >= 1 /\ Len(errs[t]) = calls[t]
Logical(k) == IsError(k) /\ ~ConnectivityClass(k)
NotDatabaseError(k) == ErrClass(k) \in { "TypeError", "AttributeError" }

C2_ExhaustedReraisesOriginal ==
    \A t \in Threads :
        (pc[t] = "done" /\ EveryCallRaised(t) /\ AllErrs(t, ConnectivityClass))
            => /\ calls[t] = max_retries
               /\ Last(errs[t]).at = max_retries
               /\ outcome[t] = Raised(Last(errs[t]).at, Last(errs[t]).kind)

C2_Witness ==
    /\ pc[1] = "done" /\ EveryCallRaised(1) /\ AllErrs(1, ConnectivityClass)
    /\ outcome[1] = Raised(3, "LostConnection")

\* Sleeps a wrapper call has done when it stands at pc[t] after `retries`
\* caught errors: none is pending only before time.sleep and after the last
\* allowed attempt.
SleepsDue(t) ==
    IF pc[t] = "sleep" \/ (pc[t] = "done" /\ retries[t] = max_retries)
    THEN retries[t] - 1
    ELSE retries[t]

\* C3: the k-th failed attempt, k < max_retries, is followed by a sleep of
\* delay * backoff^(k-1) seconds (2, then 4); the sleeps strictly increase and
\* the last allowed attempt is followed by none.
C3_BackoffSchedule ==
    \A t \in Threads :
        /\ Len(sleeps[t]) = SleepsDue(t)
        /\ Len(sleeps[t]) <= max_retries - 1
        /\ \A i \in 1 .. Len(sleeps[t]) : sleeps[t][i] = delay * (backoff ^ (i - 1))
        /\ \A i, j \in 1 .. Len(sleeps[t]) : i < j => sleeps[t][i] < sleeps[t][j]
        /\ sleeps[t] \in { << >>, << 2 >>, << 2, 4 >> }

C3_Witness ==
    pc[1] = "done" /\ retries[1] = max_retries /\ sleeps[1] = << 2, 4 >>

\* C4: execute_query that raises a connection-interface error on its first two
\* invocations and succeeds on the third gives its caller the third
\* invocation's return value (the insert id), after exactly two sleeps.
C4_ThirdAttemptValue ==
    \A t \in Threads :
        ( /\ pc[t] = "done" /\ op[t] = "execute_query"
          /\ Len(errs[t]) = 2 /\ AllErrs(t, ConnectivityClass)
          /\ outcome[t].kind = "returned" )
            => /\ calls[t] = 3
               /\ outcome[t] = Returned(3, PyInt(committed))
               /\ committed >= 1
               /\ Len(sleeps[t]) = 2

C4_Witness ==
    /\ pc[1] = "done" /\ op[1] = "execute_query" /\ Len(errs[1]) = 2
    /\ AllErrs(1, ConnectivityClass) /\ outcome[1] = Returned(3, PyInt(1))
    /\ sleeps[1] = << 2, 4 >>

\* C5 (as stated): after a connectivity-class error that is not the last
\* allowed attempt, the next invocation never runs against the pool object the
\* failed one ran against: that pool has been discarded in between.
C5_NoRetryOnOldPool ==
    \A t \in Threads :
        \A i \in 1 .. Len(poolAt[t]) - 1 :
            (ConnectivityClass(errs[t][i].kind) /\ poolAt[t][i] # 0)
                => poolAt[t][i + 1] # poolAt[t][i]

\* C6: initialize_pool() with a pool in place changes nothing: the pool object
\* stays, none is constructed, the call returns.
C6_InitializeIdempotent ==
    [][ \A t \in Threads :
          (pc[t] = "ip_check" /\ pool # 0)
              => /\ pool' = pool /\ poolsBuilt' = poolsBuilt
                 /\ pc'[t] # "ip_build" /\ pc'[t] = cont[t] ]_vars

C6_Witness ==
    pc[1] = "idle" /\ built[1] = "skipped" /\ pool # 0

\* C7: a failed pool construction ends initialize_pool() normally with the
\* pool unset, and the next initialize_pool() constructs again.
C7_FailedInitLeavesUnset ==
    [][ \A t \in Threads :
          /\ (pc[t] = "ip_build" /\ built'[t] = "failed")
                => (pool' = 0 /\ pc'[t] = cont[t])
          /\ (pc[t] = "ip_check" /\ built[t] = "failed" /\ pool = 0)
                => pc'[t] = "ip_build" ]_vars

C7_Witness ==
    pc[1] = "ip_build" /\ built[1] = "failed" /\ pool = 0 /\ cont[1] = "idle"

\* C10 (as stated): only the first close() of a handle closes its connection;
\* no connection object has close() called on it a second time.
C10_ConnectionClosedOnce ==
    \A t \in Threads : connection[t].closes <= 1


\* Pool objects that are installed or have a connection out with a handle.
LivePools ==
    ({ pool } \cup { connection[t].pool : t \in { u \in Threads : Held(connection[u]) } })
        \ { 0 }

\* C8 (as stated): at most one live pool instance exists, whatever the threads do.
C8_AtMostOneLivePool == Cardinality(LivePools) <= 1

\* Thread t is inside _reconnect_pool, after it discarded a pool and before
\* initialize_pool() has installed the next one.
MidReplacement(t) ==
    old[t] # 0 /\ cont[t] = "rc_get" /\ pc[t] \in { "ip_check", "ip_build" }

\* Thread u runs _get_connection in this step.
Acquires(u) ==
    /\ pc'[u] # pc[u]
    /\ \/ pc[u] \in { "ctor_get", "rc_get" }
       \/ pc[u] = "attempt" /\ LoopRuns(retries[u]) /\ ~IsConnected(connection[u])

\* C9 (as stated): while one thread replaces the pool, no acquisition of
\* another thread finds the pool unset.
C9_ReplacementAtomic ==
    [][ \A u \in Threads :
          (Acquires(u) /\ \E t \in Threads \ { u } : MidReplacement(t))
              => pool # 0 ]_vars

\* C11: a handle used as the target of a with statement: __enter__ gives the
\* handle itself; leaving the body, by its end or by an exception, runs close()
\* exactly once (the cursor is gone, the connection has had close() called on
\* it); and the exception the body raised is the one that leaves the statement.
C11_ScopeReleasesOnce ==
    \A t \in Threads :
        /\ scope[t].kind \in { "with", "left" } => scope[t].bound = t
        /\ scope[t].kind = "with" => scope[t].exits = 0
        /\ scope[t].kind = "left"
              => /\ scope[t].exits = 1
                 /\ scope[t].out = scope[t].body
                 /\ ~cursor[t]
                 /\ connection[t] # NoConn => connection[t].closes >= 1

C11_Witness ==
    /\ scope[1].kind = "left" /\ scope[1].exits = 1
    /\ scope[1].body = "LostConnection" /\ scope[1].out = "LostConnection"
    /\ connection[1].st = "returned"

\* The handle of index t is a module global: the importing thread made it.
Global(t) == Main \in users[t]

\* The operation that worked with handle t has returned to its caller: the
\* with statement of Login.login is left, or a request handler that used the
\* module global db_connection is back from its call.
OperationReturned(t) ==
    \/ scope[t].kind = "left"
    \/ Global(t) /\ pc[t] = "idle" /\ users[t] \cap Threads # { }

\* C12 (as stated): once the operation that borrowed a handle has returned,
\* the handle holds no connection: the connection is back in its pool.
C12_ReleasedOnReturn ==
    \A t \in Threads : OperationReturned(t) => ~Held(connection[t])

\* C13 (as stated): no handle is used by two request threads.
C13_HandleNotShared ==
    \A t \in Threads : Cardinality(users[t] \cap Threads) <= 1

\* The last invocation of the current wrapper call raised.
LastFailed(t) == calls[t] >= 1 /\ Len(errs[t]) = calls[t]

\* C14 (as stated): when a run of execute_query has ended in an error, the
\* transaction on the handle's connection has been rolled back: no statement
\* is left uncommitted in it.
C14_RolledBackBeforeReraise ==
    \A t \in Threads :
        (op[t] = "execute_query" /\ LastFailed(t)) => ~connection[t].dirty

\* C15 (as stated): what fetch_one and fetch_all return on a handle is the
\* committed data: a statement of an execute_query that ended in an error is
\* not among the rows.
C15_NoPartialWriteVisible ==
    \A t \in Threads :
        (pc[t] = "done" /\ outcome[t].kind = "returned")
            => /\ op[t] = "fetch_one" => outcome[t].val = FetchOne(committed)
               /\ op[t] = "fetch_all" => outcome[t].val = FetchAll(committed)

\* C16: whenever the call returns, fetch_one gives None with zero rows and
\* else one row as a dict, never an empty dict; fetch_all gives the list of the
\* rows, the empty list with zero rows, never None.
C16_FetchResultShapes ==
    \A t \in Threads :
        (pc[t] = "done" /\ outcome[t].kind = "returned")
            => LET rows == Visible(connection[t])
                   v    == outcome[t].val
               IN  /\ op[t] = "fetch_one"
                        => /\ rows = 0 => v = PyNone
                           /\ rows > 0 => (v.type = "dict" /\ v.n \in 1 .. rows)
                   /\ op[t] = "fetch_all"
                        => (v.type = "list" /\ v.n = rows /\ v # PyNone)

C16_Witness ==
    /\ pc[1] = "done" /\ op[1] = "fetch_all" /\ committed = 0
    /\ outcome[1] = Returned(2, PyList(0))

\* C17: a wrapper call ends with the value its last invocation returned or
\* with the exception its last invocation raised; it never ends by falling out
\* of the loop with None in place of either.
C17_NoErrorSentinel ==
    \A t \in Threads :
        pc[t] = "done"
            => /\ calls[t] >= 1
               /\ outcome[t].at = calls[t]
               /\ outcome[t].kind \in { "returned", "raised" }
               /\ outcome[t].kind = "returned" => Len(errs[t]) = calls[t] - 1
               /\ LastFailed(t) => outcome[t] = Raised(calls[t], Last(errs[t]).kind)

C17_Witness ==
    /\ pc[1] = "done" /\ op[1] = "fetch_all" /\ calls[1] = max_retries
    /\ outcome[1] = Raised(max_retries, "Syntax") /\ Len(errs[1]) = max_retries

\* C18: a run of execute_query, fetch_one or fetch_all calls cursor.execute
\* only on a connected connection; a handle whose connection is absent or not
\* connected either takes a connected one from the installed pool first or
\* raises without calling cursor.execute.
C18_StatementOnLiveConnection ==
    [][ \A t \in Threads :
          (pc[t] = "attempt" /\ calls'[t] = calls[t] + 1)
              => /\ ran'[t] \in { ran[t], ran[t] + 1 }
                 /\ ran'[t] = ran[t] + 1
                       => /\ IsConnected(connection'[t])
                          /\ NeedsConnection(connection[t])
                                => /\ pool # 0
                                   /\ connection'[t].pool = pool
                                   /\ connection'[t].closes = 0
                 /\ ran'[t] = ran[t]
                       => /\ Len(errs'[t]) = Len(errs[t]) + 1
                          /\ Last(errs'[t]).kind \in { "NoConnection", "NotAvailable",
                                                      "NoneAttr" } ]_vars

C18_Witness ==
    /\ pc[1] = "done" /\ calls[1] = 2 /\ ran[1] = 1
    /\ errs[1] = << Exc("NoConnection", 1) >> /\ outcome[1].kind = "returned"

\* C19 (as stated): is_connected() ends by returning a boolean in every state
\* of the handle, and the boolean is True only if the SELECT 1 it sent on the
\* handle's connected connection was answered.
C19_ProbeNeverRaises ==
    \A t \in Threads :
        probe[t] # NoProbe
            => /\ probe[t].out.kind = "returned"
               /\ probe[t].out.val.type = "bool"
               /\ probe[t].out.val = PyBool(TRUE)
                     => (probe[t].st = "live" /\ probe[t].select = "ok")

\* C20: on a handle whose construction took a connected connection from the
\* installed pool, is_connected() returns True when the server answers its
\* SELECT 1.
C20_FreshHandleConnected ==
    \A t \in Threads :
        (probe[t].st = "live" /\ probe[t].select = "ok")
            => probe[t].out = Returned(0, PyBool(TRUE))

C20_Witness ==
    /\ pc[1] = "idle" /\ built[1] = "ok" /\ pool # 0
    /\ connection[1] = Conn(pool, "live") /\ cursor[1]
    /\ probe[1] = [ st |-> "live", select |-> "ok", out |-> Returned(0, PyBool(TRUE)) ]

\* C21: whenever _get_connection() returns True the handle holds an open
\* connection of the installed pool and a cursor; whenever it ran into an
\* Error the handle holds neither a connection nor a cursor.
C21_AcquisitionAllOrNothing ==
    [][ \A t \in Threads :
          pc[t] = "reconnect_get"
            => /\ recon'[t].got = "True"
                    => /\ connection'[t] # NoConn
                       /\ IsConnected(connection'[t])
                       /\ connection'[t].pool = pool
                       /\ cursor'[t]
               /\ recon'[t].got = "Error"
                    => (connection'[t] = NoConn /\ ~cursor'[t]) ]_vars

C21_Witness ==
    /\ recon[1] = [ got |-> "True", out |-> Returned(0, PyBool(TRUE)) ]
    /\ pc[1] = "idle"
    /\ IsConnected(connection[1])
    /\ cursor[1]

\* The pool was unset at every invocation of the current wrapper call.
PoolUnsetThroughout(t) == \A i \in 1 .. Len(poolAt[t]) : poolAt[t][i] = 0

\* C22: a handle constructed while the pool cannot be built exists and holds
\* nothing; a wrapped method called on it while the pool stays unbuildable is
\* invoked max_retries times without reaching a statement and ends by raising
\* the Error of the failed acquisition, never by returning.
C22_InitFailureSurfacesAtFirstUse ==
    \A t \in Threads :
        /\ (pc[t] = "idle" /\ pool = 0 /\ built[t] = "failed" /\ connection[t] = NoConn)
              => (~cursor[t] /\ outcome[t] = NoOutcome)
        /\ (pc[t] = "done" /\ pool = 0 /\ built[t] = "failed" /\ connection[t] = NoConn
                /\ PoolUnsetThroughout(t))
              => /\ outcome[t] = Raised(max_retries, "NoConnection")
                 /\ calls[t] = max_retries
                 /\ ran[t] = 0
                 /\ sleeps[t] = << 2, 4 >>

C22_Witness ==
    /\ pc[1] = "done" /\ pool = 0 /\ built[1] = "failed" /\ connection[1] = NoConn
    /\ PoolUnsetThroughout(1)
    /\ op[1] = "fetch_one"
    /\ outcome[1] = Raised(3, "NoConnection")

\* The current wrapper call started with a pool in place, and every one of its
\* invocations failed to get a connection.
AcquisitionFailedEveryTime(t) ==
    /\ LastFailed(t)
    /\ \A i \in 1 .. Len(errs[t]) : errs[t][i].kind = "NoConnection"
    /\ poolAt[t][1] # 0

\* C23: when the pool gives the method no connection at any attempt, the
\* method is invoked max_retries times, no statement is sent, and the caller
\* gets the Error of the failed acquisition; the call does not wait for a
\* slot beyond the backoff sleeps of the retry.
C23_ExhaustedPoolPropagates ==
    \A t \in Threads :
        (pc[t] = "done" /\ AcquisitionFailedEveryTime(t))
            => /\ calls[t] = max_retries
               /\ outcome[t] = Raised(max_retries, "NoConnection")
               /\ ran[t] = 0
               /\ sleeps[t] = << 2, 4 >>

C23_Witness ==
    /\ pc[1] = "done" /\ AcquisitionFailedEveryTime(1)
    /\ connection[1] = NoConn
    /\ op[1] = "execute_query"
    /\ outcome[1] = Raised(3, "NoConnection")

\* C24 (as stated): no consumer method lets a database exception reach the
\* route layer; each returns a result mapping, None or False instead.
C24_ConsumersCatch ==
    \A t \in Threads : upshot[t].out.kind # "raised"

\* C30 (as stated): a User mutation reports its flag True exactly when
\* execute_query ran and committed its statement without error, also when
\* execute_query returns None for a statement without a row id.
C30_FlagIffCommitted ==
    \A t \in Threads :
        upshot[t].by \in UserMutations
            => (upshot[t].out = Returned(0, PyFlags(TRUE))
                    <=> upshot[t].call.kind = "returned")

OpenConnections ==
    (IF pool # 0 THEN pool_size ELSE 0)
        + Cardinality({ t \in Threads :
                          connection[t].st = "live" /\ connection[t].pool # pool })

\* C26 (as stated): whatever the threads construct, call, retry and
\* re-initialise, at most pool_size (5) database connections are open at the
\* same time, counted over the installed pool and the discarded ones.
C26_AtMostPoolSizeOpen == OpenConnections <= pool_size

\* C27 (as stated): while a handle is in use, the connection it has borrowed
\* is given back to its pool before self.connection is set to another
\* connection or to None: a held connection is never replaced, so the handle
\* never has more than one slot out and a final close() frees the last one.
C27_SlotReturnedBeforeOverwrite ==
    [][ \A t \in Threads :
          (Held(connection[t]) /\ pc'[t] # "new")
            => /\ connection'[t] # NoConn
               /\ connection'[t].pool = connection[t].pool
               /\ connection[t].st = "dead" => connection'[t].st # "live" ]_vars

\* C28 (as stated): whatever fails during the attempts of one execute_query
\* call, its statement takes effect in the database at most once, and exactly
\* once when the call returns.
C28_CommitsAtMostOnce ==
    \A t \in Threads :
        /\ applied[t] <= 1
        /\ (pc[t] = "done" /\ op[t] = "execute_query" /\ outcome[t].kind = "returned")
              => applied[t] = 1

\* C29: after a caught error whose message holds neither "connection" nor
\* "interface", and after any caught error of a call whose first argument is
\* no handle (execute_quick_query), the wrapper goes from its sleep straight
\* to the next attempt: the pool and the handle's connection and cursor are
\* what they were.  _reconnect_pool is entered only from the sleep that
\* follows an error with such a message in a method of a handle.
C29_ReinitOnlyForConnectivityOnHandle ==
    [][ \A t \in Threads :
          /\ (pc[t] = "sleep" /\ pc'[t] # "sleep"
                /\ (~MentionsLost(Last(errs[t]).kind) \/ op[t] \in QuickOps))
                => /\ pc'[t] = "attempt"
                   /\ pool' = pool /\ poolsBuilt' = poolsBuilt
                   /\ connection'[t] = connection[t]
                   /\ cursor'[t] = cursor[t]
          /\ (pc'[t] = "rc_close" /\ pc[t] # "rc_close")
                => /\ pc[t] = "sleep"
                   /\ MentionsLost(Last(errs[t]).kind)
                   /\ op[t] \notin QuickOps ]_vars

C29_Witness ==
    /\ pc[1] = "done" /\ op[1] = "execute_quick_query"
    /\ outcome[1] = Raised(3, "LostConnection")
    /\ sleeps[1] = << 2, 4 >>
    /\ poolAt[1] = << 1, 1, 1 >>
    /\ IsConnected(connection[1])

\* C34 (as stated): every reconnect() returns a boolean: True with the handle
\* untouched when the probe succeeded, and otherwise, after close() and a new
\* acquisition, True exactly when that acquisition left a connected
\* connection with a cursor.
C34_ReconnectReturnsWhetherConnected ==
    \A t \in Threads :
        recon[t].out.kind # "none"
            => /\ recon[t].out.kind = "returned"
               /\ recon[t].got = "none" => recon[t].out.val = PyBool(TRUE)
               /\ recon[t].got # "none"
                    => (recon[t].out.val = PyBool(TRUE) <=> recon[t].got = "True")

C35_LegacyNeverDereferencesAbsent ==
    \A t \in Threads :
        /\ cursor[t] => connection[t] # NoConn
        /\ legacy[t].out.kind = "raised" => IsError(legacy[t].out.exc)

\* C31: login never raises; it returns login_succeeded = True only when its
\* lookup returned the row of the email, the lookup of validate_password
\* returned it too and the stored hash matched the password; in every other
\* case (no row, a lookup that raised, the row gone at the second lookup, no
\* match) it returns login_succeeded = False with a reason.
C31_LoginSucceedsOnlyOnMatch ==
    \A t \in Threads :
        (upshot[t].by = "login" /\ upshot[t].at = "none")
            => /\ upshot[t].out.kind = "returned"
               /\ upshot[t].out.val.login_succeeded
                    <=> /\ Len(upshot[t].trail) = 3
                        /\ upshot[t].trail[1].kind = "returned"
                        /\ upshot[t].trail[1].val # PyNone
                        /\ upshot[t].trail[2].kind = "returned"
                        /\ upshot[t].trail[2].val # PyNone
                        /\ upshot[t].trail[3] = "match"
               /\ ~upshot[t].out.val.login_succeeded
                    => upshot[t].out.val.reason # "none"

C31_Witness ==
    /\ upshot[1].by = "login" /\ upshot[1].at = "none"
    /\ upshot[1].out = Returned(0, PyLogin(FALSE, "Invalid password"))
    /\ upshot[1].trail[2].kind = "raised"
    /\ connection[1].st = "returned" /\ connection[2].st = "returned"

\* C32 (as stated): after a failed login try_login shows "Password is
\* incorrect" when the password was wrong for an existing email and "This
\* email does not exist" when the email is unknown.
C32_FlashTellsCausesApart ==
    \A t \in Threads :
        (upshot[t].by = "login" /\ upshot[t].at = "none" /\ upshot[t].out.kind = "returned")
            => /\ upshot[t].out.val.reason = "Invalid password"
                    => upshot[t].flash = "Password is incorrect"
               /\ upshot[t].out.val.reason = "Email not found"
                    => upshot[t].flash = "This email does not exist"

\* The calls of kind name that a request under @premium_required has made.
Made(t, name) ==
    { i \in 1..Len(upshot[t].trail) : upshot[t].trail[i].step = name }

\* The request of thread t under @premium_required has been answered by a
\* logged-in user's is_premium_user.
PremiumAnswered(t) ==
    /\ upshot[t].by = "premium_required" /\ upshot[t].at = "none"
    /\ upshot[t].trail[1].out.val = PyBool(TRUE)

\* is_premium_user returned True only for a row that fetch_one returned, and
\* the handler ran only for a logged-in user with that True.
PremiumOnlyForRow(t) ==
    /\ upshot[t].out.kind = "returned"
    /\ upshot[t].out.val = PyBool(TRUE)
         => (upshot[t].call.kind = "returned" /\ upshot[t].call.val # PyNone)
    /\ upshot[t].flash = "handler" <=> upshot[t].out.val = PyBool(TRUE)

\* C33 (as stated): is_premium_user never raises and returns True only for a
\* subscription row; it returns False whenever a connectivity probe raised, a
\* reconnect raised or returned False, or the query raised; the handler runs
\* only for a logged-in user for whom it returned True.
C33_PremiumFailsClosed ==
    \A t \in Threads :
        /\ (upshot[t].by = "premium_required" /\ upshot[t].at = "none"
              /\ upshot[t].trail[1].out.val = PyBool(FALSE))
                => (upshot[t].flash = "login" /\ upshot[t].out = NoOutcome)
        /\ PremiumAnswered(t)
              => /\ PremiumOnlyForRow(t)
                 /\ ( \/ \E i \in Made(t, "is_connected") :
                             upshot[t].trail[i].out.kind = "raised"
                      \/ \E i \in Made(t, "reconnect") :
                             upshot[t].trail[i].out # Returned(0, PyBool(TRUE))
                      \/ upshot[t].call.kind = "raised" )
                        => upshot[t].out.val = PyBool(FALSE)

\* C33 (amended): is_premium_user never raises and returns True only for a
\* subscription row that the query returned; it returns False whenever a
\* probe or a reconnect raised or the query raised or found no row.  A
\* reconnect that returned False does not end the call: the query is still
\* sent, and its row counts.  The handler runs only for a logged-in user for
\* whom is_premium_user returned True.
C33_PremiumTrueOnlyForRow ==
    \A t \in Threads :
        /\ (upshot[t].by = "premium_required" /\ upshot[t].at = "none"
              /\ upshot[t].trail[1].out.val = PyBool(FALSE))
                => (upshot[t].flash = "login" /\ upshot[t].out = NoOutcome)
        /\ PremiumAnswered(t)
              => /\ PremiumOnlyForRow(t)
                 /\ ( \/ \E i \in Made(t, "is_connected") \cup Made(t, "reconnect") :
                             upshot[t].trail[i].out.kind = "raised"
                      \/ upshot[t].call.kind = "raised"
                      \/ upshot[t].call = Returned(0, PyNone) )
                        => upshot[t].out.val = PyBool(FALSE)

C33_Witness ==
    /\ PremiumAnswered(1)
    /\ upshot[1].out = Returned(0, PyBool(FALSE))
    /\ upshot[1].flash = "premium"
    /\ \E i \in Made(1, "reconnect") : upshot[1].trail[i].out.exc = "NoneAttr"

====
